---- MODULE Spec2Model ----
(***************************************************************************)
(* Incremental ETL of the fire-incidents dataset (src/etl): watermark      *)
(* store, paginated extractor, normalizer and quality gate, upsert loader  *)
(* and the orchestrator run_etl that sequences them.                       *)
(*                                                                         *)
(* Data abstraction.  A source record has three fields:                    *)
(*   incident_number     a key of Keys, or NULL when the API omits it      *)
(*   response_timestamp  the incremental column: a time in ticks           *)
(*                       (1..MaxTick, TicksPerMs ticks per millisecond),   *)
(*                       or 0 when the field is missing (NaT)              *)
(*   address             the payload; every record has one, and the model  *)
(*                       uses the record's position in the source as its   *)
(*                       value, so two versions of a key are told apart    *)
(* A DataFrame is a sequence of records; a column exists in a DataFrame    *)
(* built from the API's JSON iff some record carries the field.            *)
(* Text (the watermark file, the timestamps the orchestrator formats) is   *)
(* a sequence of one-character strings.                                    *)
(***************************************************************************)
EXTENDS Integers, Sequences, FiniteSets, Bags, TLC

\* ---------------------------------------------------------------- bounds
MaxSource == 2          \* records the remote dataset can hold
MaxTick == 3            \* latest time a record can carry, in ticks
MaxBatchSize == 2       \* BATCH_SIZE is drawn from 1..MaxBatchSize
TicksPerMs == 2         \* sub-millisecond resolution of source timestamps
                        \* (1000 microseconds per millisecond in the source)
max_iterations == 2     \* page cap of fetch_fire_data (10 in the source)
page_size == 1          \* rows per execute_values page (500 in the source)

Keys == {"K1", "K2"}
NULL == "NULL"
None == << >>           \* Python None for an optional text: the code never
                        \* holds an empty text where it may hold None

INCREMENTAL_COLUMN == "response_timestamp"
unique_key == "incident_number"
AllColumns == {"incident_number", "response_timestamp", "address"}

VARIABLES
  \* ---- external, persistent state
  source,          \* the remote dataset, in the order the API returns it
  wmFile,          \* LAST_RUN_TIMESTAMP_FILE: [exists, text]
  tblExists,       \* the staging table exists
  tblCols,         \* its columns
  tblRows,         \* its committed rows, a bag of rows
  BATCH_SIZE,      \* config.BATCH_SIZE
  API_APP_TOKEN,   \* config.API_APP_TOKEN: None, or the token
  \* ---- one run of run_etl (a process)
  pc,              \* position of the run
  engine,          \* "None", "open", "disposed"
  disposeCalls,    \* calls of engine.dispose() in the process
  last_run_ts,     \* main.py last_run_ts
  where,           \* extract.py params["$where"]: None, or the timestamp of the filter
  offset,          \* extract.py offset
  iteration_count, \* extract.py iteration_count
  all_data,        \* extract.py all_data
  response,        \* outcome of the last page request: "none", "ok", "error"
  fetch_returned,  \* what fetch_fire_data returned: "pending", "None", "DataFrame"
  raw_data_df,     \* main.py raw_data_df (when a DataFrame)
  latest_processed_timestamp,
  transformed_df,  \* main.py transformed_df
  issues_found,    \* transform.py issues_found of the gate
  gateRaised,      \* the gate raised ValueError("Missing critical column")
  txPending,       \* rows executed in the open, uncommitted transaction
  exitCode,        \* process exit status: -1 while running
  \* ---- history of the run
  requests,        \* page requests issued by the run
  requestLog,      \* their parameters, in order: [offset, limit, where,
                   \* headers]
  capWarning,      \* "Reached maximum iteration limit" was logged
  loaderCalled,    \* load_data_to_staging was called
  pagesExecuted,   \* pages execute_values sent in the run's transaction
  committed,       \* conn.commit() of upsert_data returned
  wmAtStart,       \* wmFile when the run started
  rowsAtStart,     \* tblRows when the run started
  writeLost,       \* "lost": the run that ended committed its load and
                   \* its watermark write failed; "previous": so did the
                   \* last run before this one that committed a load, and
                   \* the source and the table are as that run left them
  \* ---- one run of the DAG fire_sf_to_s3_dag, from summarize_fire_incidents
  dagPc,           \* the task that runs next
  summary,         \* the summary file perform_fire_summary_dq_checks finds
  dq_statuses,     \* XCom of perform_fire_summary_dq_checks
  branchChoice,    \* task id branch_on_dq_results returned
  ranTasks,        \* the tasks downstream of the branch that have run
  \* ---- one call of the normalization of transform_data (steps 1 and 2)
  normPc,          \* the step that runs next
  original_columns,\* df.columns of the DataFrame handed to transform_data
  rows_in,         \* its number of rows
  df_columns,      \* df.columns
  df_rows,         \* len(df)
  col_state        \* per column: the form of its values

vars == << source, wmFile, tblExists, tblCols, tblRows, BATCH_SIZE,
           API_APP_TOKEN, pc, engine, disposeCalls, writeLost,
           last_run_ts, where, offset, iteration_count, all_data, response,
           fetch_returned, raw_data_df, latest_processed_timestamp,
           transformed_df, issues_found, gateRaised, txPending, exitCode,
           requests, requestLog, capWarning, loaderCalled, pagesExecuted,
           committed, wmAtStart, rowsAtStart, dagPc, summary, dq_statuses,
           branchChoice, ranTasks, normPc, original_columns, rows_in,
           df_columns, df_rows, col_state >>

extVars == << source, wmFile, tblExists, tblCols, tblRows, BATCH_SIZE,
                API_APP_TOKEN >>
\* the variables Exit sets
exitVars == << pc, exitCode, engine, disposeCalls, all_data, raw_data_df, transformed_df,
               txPending >>
mainVars == << last_run_ts, latest_processed_timestamp, issues_found,
              gateRaised >>
fetchVars == << where, offset, iteration_count, response, fetch_returned,
                requests, requestLog, capWarning >>
loadVars == << loaderCalled, pagesExecuted, committed >>
histVars == << wmAtStart, rowsAtStart, writeLost >>
dagVars == << dagPc, summary, dq_statuses, branchChoice, ranTasks >>
normVars == << normPc, original_columns, rows_in, df_columns, df_rows,
              col_state >>
etlVars == << extVars, exitVars, mainVars, fetchVars, loadVars, histVars >>

\* ------------------------------------------------------------------ text
Alphabet == << " ", "0", "1", "2", "3", "4", "5", "6", "7", "8", "9", "x" >>
Digits == { Alphabet[i] : i \in 2..11 }

CharCode(c) == CHOOSE i \in 1..Len(Alphabet) : Alphabet[i] = c
DigitChar(d) == Alphabet[d + 2]
DigitVal(c) == CharCode(c) - 2

Min(a, b) == IF a <= b THEN a ELSE b

\* Python's str comparison: lexicographic by code point, a prefix is smaller.
RECURSIVE StrLess(_, _)
StrLess(a, b) ==
  IF b = << >> THEN FALSE
  ELSE IF a = << >> THEN TRUE
  ELSE IF Head(a) # Head(b) THEN CharCode(Head(a)) < CharCode(Head(b))
  ELSE StrLess(Tail(a), Tail(b))

StrLeq(a, b) == a = b \/ StrLess(a, b)

\* str.strip()
RECURSIVE LStrip(_)
LStrip(s) == IF s # << >> /\ Head(s) = " " THEN LStrip(Tail(s)) ELSE s
RECURSIVE RStrip(_)
RStrip(s) ==
  IF s # << >> /\ s[Len(s)] = " " THEN RStrip(SubSeq(s, 1, Len(s) - 1)) ELSE s
\* no strip
Strip_none(s) == s

Strip(s) == RStrip(LStrip(s))

\* a format without zero padding
FormatMs_short(ms) ==
  IF ms < 10 THEN << DigitChar(ms) >>
  ELSE << DigitChar(ms \div 10), DigitChar(ms % 10) >>

\* The textual timestamp of a time given in milliseconds: fixed width,
\* zero padded, most significant digit first (the shape of
\* '%Y-%m-%dT%H:%M:%S.fff').
FormatMs(ms) == << DigitChar(ms \div 10), DigitChar(ms % 10) >>

\* timestamps.max().strftime('%Y-%m-%dT%H:%M:%S.%f')[:-3]: the time is
\* formatted to microseconds and the last three digits are cut off.
FormatTimestamp(tick) == FormatMs(tick \div TicksPerMs)

\* datetime.fromisoformat accepts the text
IsIsoFormat(s) == Len(s) = 2 /\ \A i \in 1..Len(s) : s[i] \in Digits

\* the time, in ticks, a valid timestamp text denotes
ParseTicks(s) == (10 * DigitVal(s[1]) + DigitVal(s[2])) * TicksPerMs

\* ---------------------------------------------------------- watermark store
NoFile == [exists |-> FALSE, text |-> << >>]
File(s) == [exists |-> TRUE, text |-> s]

\* the text get_last_run_timestamp returns when it can read the file
StoredWatermark(f) ==
  IF ~f.exists THEN None              \* FileNotFoundError
  ELSE IF Strip(f.text) # << >> THEN Strip(f.text)
  ELSE None

\* get_last_run_timestamp: an IOError while reading is logged and None is
\* returned ("Proceed with full load on error")
get_last_run_timestamp(f, readable) ==
  IF readable THEN StoredWatermark(f) ELSE None

\* save_last_run_timestamp: open(file, 'w') and f.write(timestamp); an
\* IOError is logged and swallowed.  The outcomes:
\*   "written"       the file holds the timestamp
\*   "open_failed"   open raised: the file is as it was
\*   "write_failed"  open truncated the file, then the write (or the flush
\*                   at close) raised: the file is empty
WriteOutcomes == {"written", "open_failed", "write_failed"}

save_last_run_timestamp(f, timestamp, outcome) ==
  IF outcome = "written" THEN File(timestamp)
  ELSE IF outcome = "write_failed" THEN File(<< >>)
  ELSE f

\* ------------------------------------------------------------- DataFrames
Rec(k, t, v) ==
  [incident_number |-> k, response_timestamp |-> t, address |-> v]

IsMissing(r, col) ==
  IF col = "incident_number" THEN r.incident_number = NULL
  ELSE IF col = "response_timestamp" THEN r.response_timestamp = 0
  ELSE r.address = 0

\* df.columns of pd.DataFrame(list of dicts): the union of the records' fields
Columns(df) ==
  { c \in AllColumns : \E i \in 1..Len(df) : ~IsMissing(df[i], c) }

Range(s) == { s[i] : i \in 1..Len(s) }

\* ------------------------------------------------------------ remote API
\* The records the request's $where clause selects: all of them without a
\* filter, else those with response_timestamp > 'filter'
\* (a record without the field does not satisfy the comparison).
Matching(src, filter) ==
  IF filter = None THEN src
  ELSE LET Newer(r) == /\ r.response_timestamp # 0
                       /\ r.response_timestamp > ParseTicks(filter)
       IN SelectSeq(src, Newer)

\* an API whose $offset is off by one
PageOf_skip(src, filter, limit, off) ==
  LET m == Matching(src, filter)
  IN SubSeq(m, off + 2, Min(off + 1 + limit, Len(m)))

\* response.json() of a request with $limit and $offset
PageOf(src, filter, limit, off) ==
  LET m == Matching(src, filter)
  IN SubSeq(m, off + 1, Min(off + limit, Len(m)))

\* -------------------------------------------------- the DAG's quality gate
\* A status string of perform_fire_summary_dq_checks is modelled as the
\* sequence of its words ("FAIL_FILE_IS_EMPTY" is FAIL, FILE, IS, EMPTY).
\* The words in which Python's  "FAIL" in status  finds the text FAIL:
FailWords == {"FAIL", "FAILED"}

\* "FAIL" in status
ContainsFail(status) == \E i \in 1..Len(status) : status[i] \in FailWords

\* the text of an exception raised while the summary file is read:
\* up to two words
MessageWords == {"FAILED", "PASS", "IO", "Error"}
Messages ==
  {<< >>} \cup { << a >> : a \in MessageWords }
          \cup { << a, b >> : a \in MessageWords, b \in MessageWords }

summary_file_path == << "opt", "airflow", "data", "fire", "incident", "summary", "csv" >>

\* The summary file as the checks see it.  kind: "none" (not written yet),
\* "missing", "unreadable" (with the message of the error), "empty", "rows"
\* (with what the three column checks find).
SummaryFile(kind, msg, date_null, non_positive, negative) ==
  [kind |-> kind, msg |-> msg, date_null |-> date_null,
   non_positive |-> non_positive, negative |-> negative]

NoSummary == SummaryFile("none", << >>, FALSE, FALSE, FALSE)

Summaries ==
  { SummaryFile("missing", << >>, FALSE, FALSE, FALSE),
    SummaryFile("empty", << >>, FALSE, FALSE, FALSE) }
  \cup { SummaryFile("unreadable", m, FALSE, FALSE, FALSE) : m \in Messages }
  \cup { SummaryFile("rows", << >>, a, b, c) :
           a \in BOOLEAN, b \in BOOLEAN, c \in BOOLEAN }

\* perform_fire_summary_dq_checks: the list of statuses it returns
perform_fire_summary_dq_checks(f) ==
  IF f.kind = "missing"
  THEN << << "FAIL", "FILE", "DOES", "NOT", "EXIST" >> \o summary_file_path >>
  ELSE IF f.kind = "unreadable"
  THEN << << "FAIL", "FILE", "READ", "ERROR" >> \o f.msg >>
  ELSE IF f.kind = "empty"
  THEN << << "FAIL", "FILE", "IS", "EMPTY" >> >>
  ELSE << IF f.date_null THEN << "FAIL", "INCIDENT", "DATE", "INCOMPLETE" >>
          ELSE << "PASS", "INCIDENT", "DATE", "COMPLETE" >>,
          IF f.non_positive
          THEN << "FAIL", "NUM", "INCIDENTS", "NON", "POSITIVE" >>
          ELSE << "PASS", "NUM", "INCIDENTS", "POSITIVE" >>,
          IF f.negative
          THEN << "FAIL", "TOTAL", "CIVILIAN", "INJURIES", "NEGATIVE" >>
          ELSE << "PASS", "TOTAL", "CIVILIAN", "INJURIES", "NON", "NEGATIVE" >> >>

\* a branch that halts only when every status has FAIL in it
branch_on_dq_results_all(statuses) ==
  IF \A i \in 1..Len(statuses) : ContainsFail(statuses[i])
  THEN "stop_pipeline" ELSE "proceed_with_pipeline"

\* branch_on_dq_results: the task id it returns
branch_on_dq_results(statuses) ==
  IF \E i \in 1..Len(statuses) : ContainsFail(statuses[i])
  THEN "stop_pipeline" ELSE "proceed_with_pipeline"

\* the DAG is not running
DagOff ==
  /\ dagPc = "off"
  /\ summary = NoSummary
  /\ dq_statuses = << >>
  /\ branchChoice = "none"
  /\ ranTasks = {}

\* summarize_fire_incidents has run: the summary file is what it is
Summarize ==
  /\ dagPc = "summarize_fire_incidents"
  /\ summary' \in Summaries
  /\ dagPc' = "perform_fire_summary_dq_checks"
  /\ UNCHANGED << dq_statuses, branchChoice, ranTasks >>
  /\ UNCHANGED etlVars
  /\ UNCHANGED normVars

PerformDqChecks ==
  /\ dagPc = "perform_fire_summary_dq_checks"
  /\ dq_statuses' = perform_fire_summary_dq_checks(summary)
  /\ dagPc' = "branch_on_dq_results"
  /\ UNCHANGED << summary, branchChoice, ranTasks >>
  /\ UNCHANGED etlVars
  /\ UNCHANGED normVars

BranchOnDqResults ==
  /\ dagPc = "branch_on_dq_results"
  /\ branchChoice' = branch_on_dq_results(dq_statuses)
  /\ dagPc' = "downstream"
  /\ UNCHANGED << summary, dq_statuses, ranTasks >>
  /\ UNCHANGED etlVars
  /\ UNCHANGED normVars

\* the two DummyOperators downstream of the branch: the one whose task id
\* was returned runs, the other one is skipped; the DAG run is over
RunDownstream ==
  /\ dagPc = "downstream"
  /\ ranTasks' = ranTasks \cup {branchChoice}
  /\ dagPc' = "done"
  /\ UNCHANGED << summary, dq_statuses, branchChoice >>
  /\ UNCHANGED etlVars
  /\ UNCHANGED normVars

\* ---------------------------------------------------------- normalization
\* Column names are texts.  The names the API can send, for the sample of
\* the schema the model keeps: id, ems_units, data_as_of, and
\* response_timestamp, each in the spellings below.
MaxColumns == 3         \* columns of the DataFrame handed to transform_data

n_id == << "i", "d" >>
n_ems_units == << "e", "m", "s", "_", "u", "n", "i", "t", "s" >>
n_data_as_of == << "d", "a", "t", "a", "_", "a", "s", "_", "o", "f" >>
n_response_timestamp ==
  << "r", "e", "s", "p", "o", "n", "s", "e", "_",
     "t", "i", "m", "e", "s", "t", "a", "m", "p" >>

ApiNames ==
  { n_id,
    << "I", "D" >>,
    << "i", "d", "_", "1" >>,
    << "i", "d", "?" >>,
    n_ems_units,
    << "E", "M", "S", " ", "U", "n", "i", "t", "s" >>,
    n_data_as_of,
    << "d", "a", "t", "a", "-", "a", "s", ".", "_", "o", "f" >>,
    n_response_timestamp }

\* the rows of EXPECTED_DTYPES for the sample
EXPECTED_DTYPES ==
  (n_id :> "string") @@ (n_ems_units :> "Int64") @@ (n_data_as_of :> "string")

DATETIME_COLUMNS == { n_data_as_of }

\* str.lower(), on the capitals the sample uses
LowerOf ==
  ("I" :> "i") @@ ("D" :> "d") @@ ("E" :> "e") @@ ("M" :> "m") @@
  ("S" :> "s") @@ ("U" :> "u")

Lower(c) == IF c \in DOMAIN LowerOf THEN LowerOf[c] ELSE c

\* col.lower().replace(' ', '_').replace('-', '_').replace('?', '')
\*    .replace('.', '')
RECURSIVE CleanName(_)
CleanName(col) ==
  IF col = << >> THEN << >>
  ELSE LET c == Lower(Head(col))
           rest == CleanName(Tail(col))
       IN IF c \in {" ", "-"} THEN << "_" >> \o rest
          ELSE IF c \in {"?", "."} THEN rest
          ELSE << c >> \o rest

\* str(n) of a collision counter (below ten, as MaxColumns is)
CounterText(n) == << DigitChar(n) >>

\* clean_column_names: final_columns for the column names `columns`.
\* seen[col] is the number of earlier columns with the same cleaned name.
clean_column_names(columns) ==
  LET n == Len(columns)
      new_columns == [i \in 1..n |-> CleanName(columns[i])]
      seen(i) == Cardinality({ j \in 1..(i - 1) : new_columns[j] = new_columns[i] })
  IN [i \in 1..n |->
        IF seen(i) > 0
        THEN new_columns[i] \o << "_" >> \o CounterText(seen(i))
        ELSE new_columns[i]]

\* What the values of a column are, as far as the coercions tell them
\* apart: "text" (strings: numerals, dates, anything else), "nested" (JSON
\* objects or arrays), "mixed_tz" (timestamps with different UTC offsets).
ValueKinds == {"text", "nested", "mixed_tz"}

\* the state of a column: the form of its values, the form they had before
\* the last coercion that raised, and whether one raised
ColState(form, before, failed) ==
  [form |-> form, before |-> before, failed |-> failed]

\* First loop of convert_data_types, for one column: the outcomes the
\* pandas build can produce.  to_numeric raises TypeError on nested
\* values; astype(StringDtype()) of nested values raises in some builds
\* and converts in others.  The except clause leaves the column alone.
ConvertDtype(name, kind) ==
  IF name \notin DOMAIN EXPECTED_DTYPES
  THEN { ColState("original", "original", FALSE) }
  ELSE IF EXPECTED_DTYPES[name] \in {"Int64", "Float64"}
  THEN IF kind = "nested"
       THEN { ColState("original", "original", TRUE) }
       ELSE { ColState("numeric", "numeric", FALSE) }
  ELSE IF kind = "nested"
       THEN { ColState("original", "original", TRUE),
              ColState("string", "string", FALSE) }
       ELSE { ColState("string", "string", FALSE) }

\* Second loop of convert_data_types, for one column in state st:
\*   df[col] = pd.to_datetime(df[col], errors='coerce')
\*   df[col] = df[col].dt.strftime(...).fillna('')
\* Text parses (to NaT where it is no date) and is formatted.  For
\* timestamps with mixed offsets to_datetime raises in some builds and
\* returns a column of datetime objects in others; that column is
\* assigned, and .dt then raises AttributeError.  Nested values make
\* to_datetime raise.
ParseDatetime(name, kind, st) ==
  IF name \notin DATETIME_COLUMNS THEN { st }
  ELSE IF kind = "text"
  THEN { ColState("formatted", "formatted", FALSE) }
  ELSE IF kind = "mixed_tz"
  THEN { ColState(st.form, st.form, TRUE),
         ColState("datetime_objects", st.form, TRUE) }
  ELSE { ColState(st.form, st.form, TRUE) }

\* convert_data_types for one column
ConvertColumn(name, kind) ==
  UNION { ParseDatetime(name, kind, st) : st \in ConvertDtype(name, kind) }

\* normalization is not running
NormOff ==
  /\ normPc = "off"
  /\ original_columns = << >>
  /\ rows_in = 0
  /\ df_columns = << >>
  /\ df_rows = 0
  /\ col_state = << >>

\* transform_data, step 1
CleanColumnNames ==
  /\ normPc = "clean_column_names"
  /\ df_columns' = clean_column_names(df_columns)
  /\ normPc' = "convert_data_types"
  /\ UNCHANGED << original_columns, rows_in, df_rows, col_state >>
  /\ UNCHANGED << etlVars, dagVars >>

\* transform_data, step 2: every exception of a coercion is caught inside
\* the loops, so the function returns
ConvertDataTypes ==
  /\ normPc = "convert_data_types"
  /\ \E kinds \in [1..Len(df_columns) -> ValueKinds] :
       col_state' \in
         { st \in [1..Len(df_columns) ->
                     UNION { ConvertColumn(df_columns[i], kinds[i]) :
                             i \in 1..Len(df_columns) }] :
             \A i \in 1..Len(df_columns) :
               st[i] \in ConvertColumn(df_columns[i], kinds[i]) }
  /\ normPc' = "done"
  /\ UNCHANGED << original_columns, rows_in, df_columns, df_rows >>
  /\ UNCHANGED << etlVars, dagVars >>

\* ------------------------------------------------------------------ Init
InitFiles ==
  { NoFile, File(<< >>), File(<< " " >>), File(<< "x" >>), File(<< "1" >>) }

Init ==
  /\ source = << >>
  /\ wmFile \in InitFiles
  /\ tblExists = FALSE
  /\ tblCols = {}
  /\ tblRows = EmptyBag
  /\ BATCH_SIZE \in 1..MaxBatchSize
  /\ API_APP_TOKEN = None
  /\ pc = "idle"
  /\ engine = "None"
  /\ last_run_ts = None
  /\ where = None
  /\ offset = 0
  /\ iteration_count = 0
  /\ all_data = << >>
  /\ response = "none"
  /\ fetch_returned = "pending"
  /\ raw_data_df = << >>
  /\ latest_processed_timestamp = None
  /\ transformed_df = << >>
  /\ issues_found = FALSE
  /\ gateRaised = FALSE
  /\ txPending = << >>
  /\ exitCode = -1
  /\ disposeCalls = 0
  /\ requests = 0
  /\ requestLog = << >>
  /\ capWarning = FALSE
  /\ loaderCalled = FALSE
  /\ pagesExecuted = 0
  /\ committed = FALSE
  /\ wmAtStart = wmFile
  /\ rowsAtStart = tblRows
  /\ writeLost = "no"
  /\ DagOff
  /\ NormOff

\* ------------------------------------------------------------ environment
\* The dataset's publisher appends a record.  A run reads the source only
\* while it fetches; here the source changes between runs.
Publish ==
  /\ pc \in {"idle", "exited"}
  /\ Len(source) < MaxSource
  /\ \E k \in Keys \cup {NULL}, t \in 0..MaxTick :
       source' = Append(source, Rec(k, t, Len(source) + 1))
  /\ UNCHANGED << wmFile, tblExists, tblCols, tblRows, BATCH_SIZE,
                API_APP_TOKEN >>
  /\ writeLost' = "no"
  /\ UNCHANGED << wmAtStart, rowsAtStart >>
  /\ UNCHANGED << exitVars, mainVars, fetchVars, loadVars, dagVars, normVars >>

\* ------------------------------------------------------------- the run
\* a catch-all handler that also catches the exits the run requests
\* (except BaseException in place of except Exception)
ExitStatus_caught(code) == 1

\* the status the process ends with when run_etl calls sys.exit(code) or
\* returns (code 0): SystemExit is not an Exception, so the handler
\* except Exception of run_etl does not replace it
ExitStatus(code) == code

\* a run without the finally clause
Exit_noDispose(code) ==
  /\ pc' = "exited"
  /\ exitCode' = ExitStatus(code)
  /\ UNCHANGED << engine, disposeCalls >>
  /\ all_data' = << >>
  /\ raw_data_df' = << >>
  /\ transformed_df' = << >>
  /\ txPending' = << >>

\* sys.exit(code), or the end of run_etl: the finally clause disposes the
\* engine when it was acquired, and the process ends.  The DataFrames and
\* the connection of the process are gone with it.
Exit(code) ==
  /\ pc' = "exited"
  /\ exitCode' = ExitStatus(code)
  /\ engine' = IF engine = "open" THEN "disposed" ELSE engine
  /\ disposeCalls' = IF engine = "open" THEN disposeCalls + 1
                     ELSE disposeCalls
  /\ all_data' = << >>
  /\ raw_data_df' = << >>
  /\ transformed_df' = << >>
  /\ txPending' = << >>

\* run_etl, setup: a new process; get_db_engine and get_last_run_timestamp
RunEtlSetup ==
  /\ pc \in {"idle", "exited"}
  /\ wmAtStart' = wmFile
  /\ rowsAtStart' = tblRows
  /\ writeLost' = IF writeLost = "no" THEN "no" ELSE "previous"
  /\ disposeCalls' = 0
  /\ requests' = 0
  /\ requestLog' = << >>
  /\ capWarning' = FALSE
  /\ where' = None
  /\ offset' = 0
  /\ iteration_count' = 0
  /\ response' = "none"
  /\ fetch_returned' = "pending"
  /\ loaderCalled' = FALSE
  /\ pagesExecuted' = 0
  /\ committed' = FALSE
  /\ latest_processed_timestamp' = None
  /\ issues_found' = FALSE
  /\ gateRaised' = FALSE
  /\ UNCHANGED << all_data, raw_data_df, transformed_df, txPending >>
  /\ \E connected \in BOOLEAN, readable \in BOOLEAN :
       IF connected
       THEN /\ engine' = "open"
            /\ last_run_ts' = get_last_run_timestamp(wmFile, readable)
            /\ pc' = "extract"
            /\ exitCode' = -1
       ELSE \* get_db_engine raises: except Exception, sys.exit(1)
            /\ engine' = "None"
            /\ last_run_ts' = None
            /\ pc' = "exited"
            /\ exitCode' = 1
  /\ UNCHANGED extVars
  /\ UNCHANGED << dagVars, normVars >>

\* a fetch that falls back to a full load on a watermark it cannot parse
FetchBegin_fallback ==
  /\ pc = "extract"
  /\ fetch_returned' = "pending"
  /\ where' = IF last_run_ts # None /\ ~IsIsoFormat(last_run_ts)
               THEN None ELSE last_run_ts
  /\ pc' = "fetch"
  /\ offset' = 0
  /\ iteration_count' = 0
  /\ all_data' = << >>
  /\ UNCHANGED << response, requests, requestLog, capWarning >>
  /\ UNCHANGED << exitCode, engine, disposeCalls, raw_data_df, transformed_df, txPending >>
  /\ UNCHANGED << extVars, mainVars, loadVars, histVars, dagVars, normVars >>

\* fetch_fire_data up to the loop: the watermark is validated and becomes
\* the filter of the requests
FetchBegin ==
  /\ pc = "extract"
  /\ IF last_run_ts # None /\ ~IsIsoFormat(last_run_ts)
     THEN \* except ValueError: return None
          /\ fetch_returned' = "None"
          /\ where' = None
          /\ pc' = "extracted"
     ELSE /\ fetch_returned' = "pending"
          /\ where' = last_run_ts
          /\ pc' = "fetch"
  /\ offset' = 0
  /\ iteration_count' = 0
  /\ all_data' = << >>
  /\ UNCHANGED << response, requests, requestLog, capWarning >>
  /\ UNCHANGED << exitCode, engine, disposeCalls, raw_data_df, transformed_df, txPending >>
  /\ UNCHANGED << extVars, mainVars, loadVars, histVars, dagVars, normVars >>

\* a fetch that returns the pages it has when a request fails
RequestFailed_partial(data) == [returned |-> "DataFrame", df |-> data]

\* what fetch_fire_data returns when a page request fails, with `data` the
\* records of the earlier pages: None
RequestFailed(data) == [returned |-> "None", df |-> << >>]

\* a fetch for which reaching the page cap is an error
LoopResult_capFails(data, capped) ==
  IF capped THEN [returned |-> "None", df |-> << >>]
  ELSE [returned |-> "DataFrame", df |-> data]

\* what fetch_fire_data returns after the loop ended with a break, with
\* `data` the records of all pages: their DataFrame (an empty one for no
\* records), whether or not the break was that of the page cap
LoopResult(data, capped) == [returned |-> "DataFrame", df |-> data]

\* the values of config.API_APP_TOKEN
Tokens == {None, << "x" >>}

\* the headers fetch_fire_data builds before the loop
TokenHeaders(token) ==
  IF token # None THEN {<< "X-App-Token", token >>} ELSE {}

\* The headers of a page request beyond those the HTTP library adds itself.
\* The call is requests.get(base_url, params=params, timeout=60): the
\* headers built before the loop are not passed to it.
RequestHeaders(headers) == {}

\* a cap that is off by one
CapReached_late(count) == count > max_iterations

\* iteration_count >= max_iterations
CapReached(count) == count >= max_iterations

\* One iteration of the loop of fetch_fire_data: one page request, answered
\* with an error or with one of `pages`.  The loop ends with the
\* function's return: None on an error, else the DataFrame of all_data.
Request(pages) ==
  /\ pc = "fetch"
  /\ requests' = requests + 1
  /\ LET headers == TokenHeaders(API_APP_TOKEN)
     IN requestLog' = Append(requestLog,
                             [offset |-> offset, limit |-> BATCH_SIZE,
                              where |-> where,
                              headers |-> RequestHeaders(headers)])
  /\ \E ok \in BOOLEAN :
       IF ~ok
       THEN \* RequestException, HTTP error status, or response.json() fails
            /\ response' = "error"
            /\ UNCHANGED capWarning
            /\ fetch_returned' = RequestFailed(all_data).returned
            /\ raw_data_df' = RequestFailed(all_data).df
            /\ pc' = "extracted"
            /\ UNCHANGED << offset, iteration_count, all_data >>
       ELSE \E data_batch \in pages :
            LET extended == all_data \o data_batch
                capped == /\ data_batch # << >>
                          /\ Len(data_batch) >= BATCH_SIZE
                          /\ CapReached(iteration_count + 1)
                last == \/ data_batch = << >>
                        \/ Len(data_batch) < BATCH_SIZE
                        \/ capped
            IN /\ response' = "ok"
               /\ all_data' = extended
               /\ iteration_count' =
                    IF data_batch # << >> /\ Len(data_batch) >= BATCH_SIZE
                    THEN iteration_count + 1 ELSE iteration_count
               /\ offset' = IF last THEN offset ELSE offset + BATCH_SIZE
               /\ capWarning' = capped
               /\ IF last
                  THEN /\ fetch_returned' = LoopResult(extended, capped).returned
                       /\ raw_data_df' = LoopResult(extended, capped).df
                       /\ pc' = "extracted"
                  ELSE UNCHANGED << fetch_returned, raw_data_df, pc >>
  /\ UNCHANGED where
  /\ UNCHANGED << exitCode, engine, disposeCalls, transformed_df, txPending >>
  /\ UNCHANGED << extVars, mainVars, loadVars, histVars, dagVars, normVars >>

\* a page request to the dataset API
FetchPage == Request({ PageOf(source, where, BATCH_SIZE, offset) })

\* An API that answers a request with any list of records, whatever
\* $limit, $offset and $where say: up to one record more than asked for.
AnyRecords == { Rec("K1", MaxTick, 1), Rec("K2", 0, 2) }

AnyPages ==
  UNION { [1..n -> AnyRecords] : n \in 0..(BATCH_SIZE + 1) }

FetchAnyPage == Request(AnyPages)

\* the earliest timestamp in place of the latest
LatestTimestamp_min(df) ==
  IF INCREMENTAL_COLUMN \in Columns(df)
  THEN LET ticks == { df[i].response_timestamp : i \in 1..Len(df) } \ {0}
           earliest == CHOOSE t \in ticks : \A u \in ticks : t <= u
       IN FormatTimestamp(earliest)
  ELSE None

\* run_etl, after fetch_fire_data returned (main.py: the branch on raw_data_df)
\* the latest timestamp of the fetched data, formatted for the next run
LatestTimestamp(df) ==
  IF INCREMENTAL_COLUMN \in Columns(df)
  THEN LET ticks == { df[i].response_timestamp : i \in 1..Len(df) } \ {0}
           latest == CHOOSE t \in ticks : \A u \in ticks : u <= t
       IN FormatTimestamp(latest)
  ELSE None

\* a run that hands an empty DataFrame on to the gate
AfterExtract_transformEmpty ==
  /\ pc = "extracted"
  /\ IF fetch_returned = "None"
     THEN /\ Exit(1)
          /\ UNCHANGED latest_processed_timestamp
     ELSE /\ latest_processed_timestamp' = LatestTimestamp(raw_data_df)
          /\ pc' = "transform"
          /\ UNCHANGED << exitCode, engine, disposeCalls, all_data,
                          raw_data_df, transformed_df, txPending >>
  /\ UNCHANGED << last_run_ts, issues_found, gateRaised >>
  /\ UNCHANGED << extVars, fetchVars, loadVars, histVars, dagVars, normVars >>

\* run_etl between fetch_fire_data and transform_data: the exits on None
\* and on an empty DataFrame, and the latest timestamp of the batch
AfterExtract ==
  /\ pc = "extracted"
  /\ IF fetch_returned = "None"
     THEN /\ Exit(1)
          /\ UNCHANGED latest_processed_timestamp
     ELSE IF raw_data_df = << >>
     THEN /\ Exit(0)
          /\ UNCHANGED latest_processed_timestamp
     ELSE /\ latest_processed_timestamp' = LatestTimestamp(raw_data_df)
          /\ pc' = "transform"
          /\ UNCHANGED << exitCode, engine, disposeCalls, all_data, raw_data_df,
                          transformed_df, txPending >>
  /\ UNCHANGED << last_run_ts, issues_found, gateRaised >>
  /\ UNCHANGED << extVars, fetchVars, loadVars, histVars, dagVars, normVars >>

\* --------------------------------------------------------- quality gate
HasDuplicates(df) ==
  \E i, j \in 1..Len(df) : i # j /\ df[i].incident_number = df[j].incident_number

\* drop_duplicates(subset=['incident_number'], keep='last')
KeepLast(df) ==
  LET Kept(i) == \A j \in (i + 1)..Len(df) :
                    df[j].incident_number # df[i].incident_number
      F[i \in 0..Len(df)] ==
        IF i = 0 THEN << >>
        ELSE IF Kept(i) THEN Append(F[i - 1], df[i]) ELSE F[i - 1]
  IN F[Len(df)]

\* keep='last' where the code says keep='first'
KeepFirst_last(df) ==
  LET Kept(i) == \A j \in (i + 1)..Len(df) :
                    df[j].incident_number # df[i].incident_number
      F[i \in 0..Len(df)] ==
        IF i = 0 THEN << >>
        ELSE IF Kept(i) THEN Append(F[i - 1], df[i]) ELSE F[i - 1]
  IN F[Len(df)]

\* drop_duplicates(subset=['incident_number'], keep='first')
KeepFirst(df) ==
  LET Kept(i) == \A j \in 1..(i - 1) :
                    df[j].incident_number # df[i].incident_number
      F[i \in 0..Len(df)] ==
        IF i = 0 THEN << >>
        ELSE IF Kept(i) THEN Append(F[i - 1], df[i]) ELSE F[i - 1]
  IN F[Len(df)]

\* sort_values puts the missing values last
SortKey(r) ==
  IF r.response_timestamp = 0 THEN MaxTick + 1 ELSE r.response_timestamp

\* no sort before drop_duplicates
SortValues_unsorted(df) == {df}

\* df.sort_values(INCREMENTAL_COLUMN): ascending; the default sort is not
\* stable, so rows with equal values come out in any order
SortValues(df) ==
  LET n == Len(df)
      perms == { p \in [1..n -> 1..n] : \A i, j \in 1..n : i # j => p[i] # p[j] }
      sorted == { p \in perms : \A i \in 1..(n - 1) :
                     SortKey(df[p[i]]) <= SortKey(df[p[i + 1]]) }
  IN { [i \in 1..n |-> df[p[i]]] : p \in sorted }

\* a gate that drops every row whose key occurs more than once
\* (drop_duplicates(keep=False))
ResolveDuplicates_dropAll(df) ==
  LET Kept(i) == \A j \in 1..Len(df) :
                    j # i => df[j].incident_number # df[i].incident_number
      F[i \in 0..Len(df)] ==
        IF i = 0 THEN << >>
        ELSE IF Kept(i) THEN Append(F[i - 1], df[i]) ELSE F[i - 1]
  IN { F[Len(df)] }

\* the duplicate handling of perform_data_quality_checks: the DataFrames it
\* can return
ResolveDuplicates(df) ==
  IF ~HasDuplicates(df) THEN {df}
  ELSE IF INCREMENTAL_COLUMN \in Columns(df)
  THEN { KeepLast(s) : s \in SortValues(df) }
  ELSE { KeepFirst(df) }

\* missing_pk > 0
MissingPk(df) == \E i \in 1..Len(df) : df[i].incident_number = NULL

\* clean_column_names and convert_data_types leave the columns of this
\* model as they are: the API's field names are canonical already, and the
\* values of string columns stay the same text.
\* a gate that only logs the missing key column
TransformRaises_never(df) == FALSE

\* transform_data raises: the gate raises ValueError("Missing critical
\* column: incident_number") for a non-empty DataFrame without the column
TransformRaises(df) == df # << >> /\ unique_key \notin Columns(df)

\* transform_data when it does not raise: the DataFrames it can return
transform_data(df) ==
  IF df = << >> THEN {<< >>}
  ELSE ResolveDuplicates(df)

\* an update that does not compare with the watermark read at start
ShouldAdvance_always(last, latest) == latest # None

\* latest_processed_timestamp and last_run_ts != latest_processed_timestamp
ShouldAdvance(last, latest) == latest # None /\ last # latest

\* run_etl: transform_data and the branch on transformed_df
TransformData ==
  /\ pc = "transform"
  /\ IF TransformRaises(raw_data_df)
     THEN \* ValueError("Missing critical column"): except Exception, exit 1
          /\ Exit(1)
          /\ gateRaised' = TRUE
          /\ UNCHANGED << wmFile, issues_found >>
     ELSE \E df \in transform_data(raw_data_df) :
            /\ issues_found' = MissingPk(raw_data_df)
            /\ UNCHANGED gateRaised
            /\ IF df = << >>
               THEN \* "Dataframe empty after transformation/DQ checks"
                    /\ IF ShouldAdvance(last_run_ts,
                                        latest_processed_timestamp)
                       THEN \E outcome \in WriteOutcomes :
                              wmFile' = save_last_run_timestamp(
                                          wmFile, latest_processed_timestamp,
                                          outcome)
                       ELSE UNCHANGED wmFile
                    /\ Exit(0)
               ELSE /\ transformed_df' = df
                    /\ pc' = "load"
                    /\ UNCHANGED << wmFile, exitCode, engine, disposeCalls, all_data,
                                    raw_data_df, txPending >>
  /\ UNCHANGED << source, tblExists, tblCols, tblRows, BATCH_SIZE,
                API_APP_TOKEN >>
  /\ UNCHANGED << last_run_ts, latest_processed_timestamp >>
  /\ UNCHANGED << fetchVars, loadVars, histVars, dagVars, normVars >>

\* ---------------------------------------------------------------- loader
\* df.columns of the DataFrame the loader is given: transform_data renames
\* no column of this model, and the gate drops rows, never columns, so they
\* are the columns of the fetched DataFrame (a column stays when the rows
\* that had a value in it are dropped)
original_cols(raw) == Columns(raw)

\* the columns create_staging_table gives a new table
CreateColumns(columns) == {"incident_number"} \cup columns

\* load_data_to_staging up to and including create_staging_table.
\* CREATE TABLE IF NOT EXISTS takes effect at once (DDL autocommit).
LoadCreateTable ==
  /\ pc = "load"
  /\ loaderCalled' = TRUE
  /\ \E ok \in BOOLEAN :
       IF ok
       THEN /\ tblExists' = TRUE
            /\ tblCols' = IF tblExists THEN tblCols
                          ELSE CreateColumns(original_cols(raw_data_df))
            /\ pc' = "upsert"
            /\ UNCHANGED << exitCode, engine, disposeCalls, all_data, raw_data_df,
                            transformed_df, txPending >>
       ELSE \* SQLAlchemyError: re-raised, run_etl exits 1
            /\ Exit(1)
            /\ UNCHANGED << tblExists, tblCols >>
  /\ UNCHANGED << source, wmFile, tblRows, BATCH_SIZE,
                API_APP_TOKEN >>
  /\ UNCHANGED << pagesExecuted, committed >>
  /\ UNCHANGED << mainVars, fetchVars, histVars, dagVars, normVars >>

\* upsert_data: the columns of the DataFrame the table has, and the others
cols_to_upsert(columns, db_columns) == columns \cap db_columns
dropped_cols(columns, db_columns) == columns \ db_columns

\* One INSERT ... VALUES (page) ON CONFLICT (incident_number) DO UPDATE
\* statement is rejected by the database when
\*  - the value tuples are wider than the column list: data_tuples is built
\*    from df, not from df_filtered, so this is so whenever a column was
\*    dropped;
\*  - a row has no incident_number (the primary key is NOT NULL);
\*  - two rows of the statement have the same key (ON CONFLICT DO UPDATE
\*    cannot affect a row a second time).
StatementRejected(page, columns, db_columns) ==
  \/ dropped_cols(columns, db_columns) # {}
  \/ \E i \in 1..Len(page) : page[i].incident_number = NULL
  \/ HasDuplicates(page)

\* the row a statement inserts: the listed columns, NULL elsewhere
InsertedRow(r, cols) ==
  [incident_number |-> r.incident_number,
   response_timestamp |->
     IF "response_timestamp" \in cols THEN r.response_timestamp ELSE 0,
   address |-> IF "address" \in cols THEN r.address ELSE 0]

\* ON CONFLICT DO NOTHING
UpdatedRow_ignore(old, r, cols) == old

\* DO UPDATE SET col = EXCLUDED.col for every listed column but the key
UpdatedRow(old, r, cols) ==
  [incident_number |-> old.incident_number,
   response_timestamp |->
     IF "response_timestamp" \in cols THEN r.response_timestamp
     ELSE old.response_timestamp,
   address |-> IF "address" \in cols THEN r.address ELSE old.address]

\* a plain INSERT into a table without the key constraint
UpsertRow_insert(rows, r, cols) == rows (+) SetToBag({InsertedRow(r, cols)})

\* INSERT ... ON CONFLICT (incident_number) DO UPDATE of one row
UpsertRow(rows, r, cols) ==
  LET conflicting == { x \in BagToSet(rows) : x.incident_number = r.incident_number }
  IN IF conflicting = {}
     THEN rows (+) SetToBag({InsertedRow(r, cols)})
     ELSE LET kept == [x \in BagToSet(rows) \ conflicting |-> rows[x]]
          IN kept (+) SetToBag({ UpdatedRow(x, r, cols) : x \in conflicting })

\* the rows of the table after the rows of a transaction are applied in order
RECURSIVE ApplyUpsert(_, _, _)
ApplyUpsert(rows, pending, cols) ==
  IF pending = << >> THEN rows
  ELSE ApplyUpsert(UpsertRow(rows, Head(pending), cols), Tail(pending), cols)

\* conn.commit(): the rows of the transaction become the table's
Commit(rows, pending, cols) == ApplyUpsert(rows, pending, cols)

\* an except clause that commits what the transaction has done so far
Rollback_keep(rows, pending, cols) == ApplyUpsert(rows, pending, cols)

\* conn.rollback(): the rows of the transaction are discarded
Rollback(rows, pending, cols) == rows

\* a connection in autocommit mode: every statement is committed at once
RowsAfterStatement_autocommit(rows, page, cols) == ApplyUpsert(rows, page, cols)

\* the committed rows once a statement has run in the open transaction:
\* nothing is committed before conn.commit()
RowsAfterStatement(rows, page, cols) == rows

\* execute_values: one page of page_size rows is sent as one statement
UpsertPage ==
  /\ pc = "upsert"
  /\ Len(txPending) < Len(transformed_df)
  /\ LET n == Len(txPending)
         page == SubSeq(transformed_df, n + 1,
                        Min(n + page_size, Len(transformed_df)))
         cols == cols_to_upsert(original_cols(raw_data_df), tblCols)
     IN \E ok \in BOOLEAN :
          IF ok /\ ~StatementRejected(page, original_cols(raw_data_df), tblCols)
          THEN /\ txPending' = txPending \o page
               /\ pagesExecuted' = pagesExecuted + 1
               /\ tblRows' = RowsAfterStatement(tblRows, page, cols)
               /\ UNCHANGED << pc, exitCode, engine, disposeCalls, all_data, raw_data_df,
                               transformed_df >>
          ELSE \* except Exception: conn.rollback(), raise; run_etl exits 1
               /\ tblRows' = Rollback(tblRows, txPending, cols)
               /\ Exit(1)
               /\ UNCHANGED pagesExecuted
  /\ UNCHANGED << source, wmFile, tblExists, tblCols, BATCH_SIZE,
                API_APP_TOKEN >>
  /\ UNCHANGED << loaderCalled, committed >>
  /\ UNCHANGED << mainVars, fetchVars, histVars, dagVars, normVars >>

\* conn.commit() after the last page
UpsertCommit ==
  /\ pc = "upsert"
  /\ Len(txPending) = Len(transformed_df)
  /\ LET cols == cols_to_upsert(original_cols(raw_data_df), tblCols)
     IN \E ok \in BOOLEAN :
          IF ok
          THEN /\ tblRows' = Commit(tblRows, txPending, cols)
               /\ committed' = TRUE
               /\ pc' = "advance"
               /\ UNCHANGED << exitCode, engine, disposeCalls, all_data, raw_data_df,
                               transformed_df, txPending >>
          ELSE /\ tblRows' = Rollback(tblRows, txPending, cols)
               /\ Exit(1)
               /\ UNCHANGED committed
  /\ UNCHANGED << source, wmFile, tblExists, tblCols, BATCH_SIZE,
                API_APP_TOKEN >>
  /\ UNCHANGED << loaderCalled, pagesExecuted >>
  /\ UNCHANGED << mainVars, fetchVars, histVars, dagVars, normVars >>

\* run_etl after the load: the state update, and the end of the run
\* a run that opens the state file for writing whatever it found
AdvanceWatermark_always ==
  /\ pc = "advance"
  /\ \E outcome \in WriteOutcomes :
       /\ wmFile' = IF latest_processed_timestamp = None
                     THEN save_last_run_timestamp(wmFile, << >>, outcome)
                     ELSE save_last_run_timestamp(
                            wmFile, latest_processed_timestamp, outcome)
       /\ writeLost' = IF outcome = "written" THEN "no" ELSE "lost"
  /\ Exit(0)
  /\ UNCHANGED << source, tblExists, tblCols, tblRows, BATCH_SIZE,
                API_APP_TOKEN >>
  /\ UNCHANGED << wmAtStart, rowsAtStart >>
  /\ UNCHANGED << mainVars, fetchVars, loadVars, dagVars, normVars >>

\* run_etl after a successful load: the watermark update
AdvanceWatermark ==
  /\ pc = "advance"
  /\ IF ShouldAdvance(last_run_ts, latest_processed_timestamp)
     THEN \E outcome \in WriteOutcomes :
            /\ wmFile' = save_last_run_timestamp(
                           wmFile, latest_processed_timestamp, outcome)
            /\ writeLost' = IF outcome = "written" THEN "no" ELSE "lost"
     ELSE /\ UNCHANGED wmFile
          /\ writeLost' = "no"
  /\ Exit(0)
  /\ UNCHANGED << source, tblExists, tblCols, tblRows, BATCH_SIZE,
                API_APP_TOKEN >>
  /\ UNCHANGED << wmAtStart, rowsAtStart >>
  /\ UNCHANGED << mainVars, fetchVars, loadVars, dagVars, normVars >>

Next ==
  \/ Publish
  \/ RunEtlSetup
  \/ FetchBegin
  \/ FetchPage
  \/ AfterExtract
  \/ TransformData
  \/ LoadCreateTable
  \/ UpsertPage
  \/ UpsertCommit
  \/ AdvanceWatermark

Spec == Init /\ [][Next]_vars

\* ------------------------------------------------- overlapping runs
\* run_etl takes no lock: the scheduler may start a second run while this
\* one is in progress.  The second run is seen through its effects on the
\* shared state.  The watermark texts a run can hold:
Watermarks == {None} \cup { FormatMs(ms) : ms \in 0..(MaxTick \div TicksPerMs) }

\* Another run, started with some watermark w, has fetched and transformed
\* its batch; now it creates the table if need be, commits its upsert and
\* writes its watermark.
OverlappingRun ==
  /\ pc \notin {"idle", "exited"}
  /\ \E w \in Watermarks :
       LET fetched == Matching(source, w)
           latest == LatestTimestamp(fetched)
       IN /\ fetched # << >>
          /\ ~TransformRaises(fetched)
          /\ \E df \in transform_data(fetched) :
               LET columns == original_cols(fetched)
                   db_columns == IF tblExists THEN tblCols
                                 ELSE CreateColumns(columns)
               IN /\ ~StatementRejected(df, columns, db_columns)
                  /\ tblExists' = TRUE
                  /\ tblCols' = db_columns
                  /\ tblRows' = Commit(tblRows, df,
                                       cols_to_upsert(columns, db_columns))
          /\ IF ShouldAdvance(w, latest)
             THEN \E outcome \in WriteOutcomes :
                    wmFile' = save_last_run_timestamp(wmFile, latest, outcome)
             ELSE UNCHANGED wmFile
  /\ writeLost' = "no"
  /\ UNCHANGED << source, BATCH_SIZE, API_APP_TOKEN >>
  /\ UNCHANGED << wmAtStart, rowsAtStart >>
  /\ UNCHANGED << exitVars, mainVars, fetchVars, loadVars, dagVars, normVars >>

NextOverlap ==
  \/ Next
  \/ OverlappingRun

\* a first deployment: no watermark file, one configuration
InitOverlap ==
  /\ Init
  /\ wmFile = NoFile
  /\ BATCH_SIZE = MaxBatchSize

SpecOverlap == InitOverlap /\ [][NextOverlap]_vars

\* ------------------------------------------------------------- the DAG
InitDag ==
  /\ source = << >>
  /\ wmFile = NoFile
  /\ tblExists = FALSE
  /\ tblCols = {}
  /\ tblRows = EmptyBag
  /\ BATCH_SIZE = MaxBatchSize
  /\ API_APP_TOKEN = None
  /\ pc = "idle"
  /\ engine = "None"
  /\ last_run_ts = None
  /\ where = None
  /\ offset = 0
  /\ iteration_count = 0
  /\ all_data = << >>
  /\ response = "none"
  /\ fetch_returned = "pending"
  /\ raw_data_df = << >>
  /\ latest_processed_timestamp = None
  /\ transformed_df = << >>
  /\ issues_found = FALSE
  /\ gateRaised = FALSE
  /\ txPending = << >>
  /\ exitCode = -1
  /\ disposeCalls = 0
  /\ requests = 0
  /\ requestLog = << >>
  /\ capWarning = FALSE
  /\ loaderCalled = FALSE
  /\ pagesExecuted = 0
  /\ committed = FALSE
  /\ wmAtStart = NoFile
  /\ rowsAtStart = EmptyBag
  /\ writeLost = "no"
  /\ dagPc = "summarize_fire_incidents"
  /\ summary = NoSummary
  /\ dq_statuses = << >>
  /\ branchChoice = "none"
  /\ ranTasks = {}
  /\ NormOff

NextDag ==
  \/ Summarize
  \/ PerformDqChecks
  \/ BranchOnDqResults
  \/ RunDownstream

SpecDag == InitDag /\ [][NextDag]_vars

\* ---------------------------------------------- the normalization alone
\* the DataFrames of the API's records: their keys are pairwise distinct
ColumnLists ==
  UNION { { c \in [1..n -> ApiNames] :
              \A i, j \in 1..n : i # j => c[i] # c[j] } : n \in 1..MaxColumns }

InitNormalize ==
  /\ source = << >>
  /\ wmFile = NoFile
  /\ tblExists = FALSE
  /\ tblCols = {}
  /\ tblRows = EmptyBag
  /\ BATCH_SIZE = MaxBatchSize
  /\ API_APP_TOKEN = None
  /\ pc = "transform"
  /\ engine = "open"
  /\ last_run_ts = None
  /\ where = None
  /\ offset = 0
  /\ iteration_count = 0
  /\ all_data = << >>
  /\ response = "ok"
  /\ fetch_returned = "DataFrame"
  /\ raw_data_df = << >>
  /\ latest_processed_timestamp = None
  /\ transformed_df = << >>
  /\ issues_found = FALSE
  /\ gateRaised = FALSE
  /\ txPending = << >>
  /\ exitCode = -1
  /\ disposeCalls = 0
  /\ requests = 1
  /\ requestLog = << >>
  /\ capWarning = FALSE
  /\ loaderCalled = FALSE
  /\ pagesExecuted = 0
  /\ committed = FALSE
  /\ wmAtStart = NoFile
  /\ rowsAtStart = EmptyBag
  /\ writeLost = "no"
  /\ DagOff
  /\ normPc = "clean_column_names"
  /\ original_columns \in ColumnLists
  /\ rows_in \in 1..MaxSource
  /\ df_columns = original_columns
  /\ df_rows = rows_in
  /\ col_state = [i \in 1..Len(original_columns) |->
                    ColState("original", "original", FALSE)]

NextNormalize ==
  \/ CleanColumnNames
  \/ ConvertDataTypes

SpecNormalize == InitNormalize /\ [][NextNormalize]_vars

\* ------------------------------------------------- the extractor alone
\* fetch_fire_data called with the stored watermark, against sources as
\* long as a capped extraction can return: BATCH_SIZE records on each of
\* max_iterations pages.
FetchSourceLen == MaxBatchSize * max_iterations

\* response_timestamp of the records of these sources: missing, or a time
\* later than every watermark
FetchTicks == {0, MaxTick}

FetchSources ==
  UNION { { [i \in 1..n |-> Rec("K1", ts[i], i)] : ts \in [1..n -> FetchTicks] } :
          n \in 0..FetchSourceLen }

FetchFiles == { NoFile, File(<< "x" >>) } \cup { File(w) : w \in Watermarks \ {None} }

InitFetch ==
  /\ source \in FetchSources
  /\ wmFile \in FetchFiles
  /\ tblExists = FALSE
  /\ tblCols = {}
  /\ tblRows = EmptyBag
  /\ BATCH_SIZE \in 1..MaxBatchSize
  /\ API_APP_TOKEN \in Tokens
  /\ pc = "extract"
  /\ engine = "open"
  /\ last_run_ts = get_last_run_timestamp(wmFile, TRUE)
  /\ where = None
  /\ offset = 0
  /\ iteration_count = 0
  /\ all_data = << >>
  /\ response = "none"
  /\ fetch_returned = "pending"
  /\ raw_data_df = << >>
  /\ latest_processed_timestamp = None
  /\ transformed_df = << >>
  /\ issues_found = FALSE
  /\ gateRaised = FALSE
  /\ txPending = << >>
  /\ exitCode = -1
  /\ disposeCalls = 0
  /\ requests = 0
  /\ requestLog = << >>
  /\ capWarning = FALSE
  /\ loaderCalled = FALSE
  /\ pagesExecuted = 0
  /\ committed = FALSE
  /\ wmAtStart = wmFile
  /\ rowsAtStart = tblRows
  /\ writeLost = "no"
  /\ DagOff
  /\ NormOff

NextFetch ==
  \/ FetchBegin
  \/ FetchPage

SpecFetch == InitFetch /\ [][NextFetch]_vars

\* ------------------------------------------- a run that meets the page cap
\* One record more than a run fetches with pages of one record.  Every
\* record has a key and a timestamp.
CapSourceLen == max_iterations + 1

CapTicks == {1, MaxTick}

CapKeys == Keys \cup {"K0"}

CapSources ==
  { [i \in 1..CapSourceLen |-> Rec(k[i], t[i], i)] :
      k \in [1..CapSourceLen -> CapKeys], t \in [1..CapSourceLen -> CapTicks] }

\* a first run: no state file, no table
InitCap ==
  /\ source \in CapSources
  /\ wmFile = NoFile
  /\ tblExists = FALSE
  /\ tblCols = {}
  /\ tblRows = EmptyBag
  /\ BATCH_SIZE = 1
  /\ API_APP_TOKEN = None
  /\ pc = "idle"
  /\ engine = "None"
  /\ last_run_ts = None
  /\ where = None
  /\ offset = 0
  /\ iteration_count = 0
  /\ all_data = << >>
  /\ response = "none"
  /\ fetch_returned = "pending"
  /\ raw_data_df = << >>
  /\ latest_processed_timestamp = None
  /\ transformed_df = << >>
  /\ issues_found = FALSE
  /\ gateRaised = FALSE
  /\ txPending = << >>
  /\ exitCode = -1
  /\ disposeCalls = 0
  /\ requests = 0
  /\ requestLog = << >>
  /\ capWarning = FALSE
  /\ loaderCalled = FALSE
  /\ pagesExecuted = 0
  /\ committed = FALSE
  /\ wmAtStart = NoFile
  /\ rowsAtStart = EmptyBag
  /\ writeLost = "no"
  /\ DagOff
  /\ NormOff

NextCap ==
  \/ RunEtlSetup
  \/ FetchBegin
  \/ FetchPage
  \/ AfterExtract
  \/ TransformData
  \/ LoadCreateTable
  \/ UpsertPage
  \/ UpsertCommit
  \/ AdvanceWatermark

SpecCap == InitCap /\ [][NextCap]_vars

\* ------------------------------------- the extractor and an arbitrary API
InitApi ==
  /\ InitFetch
  /\ source = << >>

NextApi ==
  \/ FetchBegin
  \/ FetchAnyPage

\* the process runs, and every request ends (timeout=60)
SpecApi == InitApi /\ [][NextApi]_vars /\ WF_vars(NextApi)

\* --------------------------------------------------- the loader alone
\* load_data_to_staging called with the batch transform_data made of a
\* fetched batch, against the tables earlier loads can have left.
\* The table may hold a key of an earlier load that no batch brings again.
LoadKeys == Keys \cup {"K0"}

\* response_timestamp of the records of the batches: missing, the earliest
\* or the latest time
SampleTicks == {0, 1, MaxTick}

\* the address of the rows the earlier loads wrote
OldAddress == MaxSource + 1

LoadBatches ==
  UNION { { [i \in 1..n |-> Rec(ks[i], ts[i], i)] :
              ks \in [1..n -> Keys \cup {NULL}], ts \in [1..n -> SampleTicks] } :
          n \in 1..MaxSource }

TableColumns == { {"incident_number", "address"}, AllColumns }

LoadTables ==
  { [exists |-> FALSE, cols |-> {}, rows |-> EmptyBag] } \cup
  UNION { UNION { { [exists |-> TRUE, cols |-> c,
                     rows |-> SetToBag({ Rec(k, t[k], OldAddress) : k \in K })] :
                    t \in [K -> IF "response_timestamp" \in c
                                THEN {0, 1} ELSE {0}] } :
                  K \in SUBSET LoadKeys } :
          c \in TableColumns }

InitLoad ==
  /\ raw_data_df \in LoadBatches
  /\ ~TransformRaises(raw_data_df)
  /\ transformed_df \in transform_data(raw_data_df)
  /\ \E tbl \in LoadTables :
       /\ tblExists = tbl.exists
       /\ tblCols = tbl.cols
       /\ tblRows = tbl.rows
  /\ source = raw_data_df
  /\ all_data = raw_data_df
  /\ wmFile = NoFile
  /\ BATCH_SIZE = MaxBatchSize
  /\ API_APP_TOKEN = None
  /\ pc = "load"
  /\ engine = "open"
  /\ last_run_ts = None
  /\ where = None
  /\ offset = 0
  /\ iteration_count = 0
  /\ response = "ok"
  /\ fetch_returned = "DataFrame"
  /\ latest_processed_timestamp = LatestTimestamp(raw_data_df)
  /\ issues_found = MissingPk(raw_data_df)
  /\ gateRaised = FALSE
  /\ txPending = << >>
  /\ exitCode = -1
  /\ disposeCalls = 0
  /\ requests = 0
  /\ requestLog = << >>
  /\ capWarning = FALSE
  /\ loaderCalled = FALSE
  /\ pagesExecuted = 0
  /\ committed = FALSE
  /\ wmAtStart = wmFile
  /\ rowsAtStart = tblRows
  /\ writeLost = "no"
  /\ DagOff
  /\ NormOff

NextLoad ==
  \/ LoadCreateTable
  \/ UpsertPage
  \/ UpsertCommit

SpecLoad == InitLoad /\ [][NextLoad]_vars

\* ------------------------------------------------------ the gate alone
\* run_etl at the call of transform_data, with the batches a full fetch can
\* return.
GateBatchLen == MaxSource + 1

GateBatches ==
  UNION { { [i \in 1..n |-> Rec(ks[i], ts[i], i)] :
              ks \in [1..n -> Keys \cup {NULL}], ts \in [1..n -> SampleTicks] } :
          n \in 1..GateBatchLen }

InitGate ==
  /\ raw_data_df \in GateBatches
  /\ source = raw_data_df
  /\ all_data = raw_data_df
  /\ latest_processed_timestamp = LatestTimestamp(raw_data_df)
  /\ transformed_df = << >>
  /\ wmFile = NoFile
  /\ tblExists = FALSE
  /\ tblCols = {}
  /\ tblRows = EmptyBag
  /\ BATCH_SIZE = MaxBatchSize
  /\ API_APP_TOKEN = None
  /\ pc = "transform"
  /\ engine = "open"
  /\ last_run_ts = None
  /\ where = None
  /\ offset = 0
  /\ iteration_count = 0
  /\ response = "ok"
  /\ fetch_returned = "DataFrame"
  /\ issues_found = FALSE
  /\ gateRaised = FALSE
  /\ txPending = << >>
  /\ exitCode = -1
  /\ disposeCalls = 0
  /\ requests = 0
  /\ requestLog = << >>
  /\ capWarning = FALSE
  /\ loaderCalled = FALSE
  /\ pagesExecuted = 0
  /\ committed = FALSE
  /\ wmAtStart = wmFile
  /\ rowsAtStart = tblRows
  /\ writeLost = "no"
  /\ DagOff
  /\ NormOff

NextGate == TransformData

SpecGate == InitGate /\ [][NextGate]_vars

\* ================================================================ claims
KeysOf(rows) == { x.incident_number : x \in BagToSet(rows) }

\* C1: the watermark file changes only in a step of a run whose upsert
\* transaction has committed.
C1_WatermarkOnlyAfterCommit == [][wmFile' # wmFile => committed]_vars

C1_Witness ==
  /\ pc = "exited"
  /\ exitCode = 0
  /\ committed
  /\ wmFile # wmAtStart

\* C2: a run whose load failed (the loader was called and its transaction
\* never committed) ends with exit status 1, with the watermark file and
\* the rows of the table as they were.
C2_LoadFailureIsFatal ==
  (pc = "exited" /\ loaderCalled /\ ~committed) =>
    /\ exitCode = 1
    /\ wmFile = wmAtStart
    /\ tblRows = rowsAtStart

C2_Witness ==
  /\ pc = "exited"
  /\ loaderCalled
  /\ ~committed
  /\ pagesExecuted >= 1
  /\ ShouldAdvance(last_run_ts, latest_processed_timestamp)

\* C3: from the call of the loader until its transaction commits, pages
\* executed or not, and after its failure, the committed rows of the table
\* are those of before the call.
C3_UpsertAllOrNothing ==
  (loaderCalled /\ ~committed) => tblRows = rowsAtStart

C3_Witness ==
  /\ pc = "exited"
  /\ exitCode = 1
  /\ loaderCalled
  /\ ~committed
  /\ pagesExecuted >= 1
  /\ tblRows # EmptyBag

\* C4 (as claimed): a run whose gate found a missing incident_number never
\* calls the loader.
C4_MissingKeyHaltsBeforeLoad == issues_found => ~loaderCalled

\* C5: committing the rows of a transaction twice gives the table that
\* committing them once gives, for every table and batch the runs reach.
C5_UpsertIdempotent ==
  pc = "upsert" =>
    LET cols == cols_to_upsert(original_cols(raw_data_df), tblCols)
        once == Commit(tblRows, txPending, cols)
    IN Commit(once, txPending, cols) = once

C5_Witness ==
  /\ pc = "upsert"
  /\ Len(txPending) >= 2
  /\ \E i \in 1..Len(txPending) : txPending[i].incident_number \in KeysOf(tblRows)
  /\ \E i \in 1..Len(txPending) : txPending[i].incident_number \notin KeysOf(tblRows)
  /\ Commit(tblRows, txPending, cols_to_upsert(original_cols(raw_data_df), tblCols)) # tblRows

\* C6: the table never holds two rows with the same incident_number, also
\* when other runs commit while a run is in progress.
C6_OneRowPerKey ==
  \A x \in BagToSet(tblRows) :
    /\ CopiesIn(x, tblRows) = 1
    /\ \A y \in BagToSet(tblRows) : y.incident_number = x.incident_number => y = x

\* the run's transaction has executed its pages, and one of its keys was
\* committed by another run after this run started: only the database can
\* resolve that conflict
C6_Witness ==
  /\ pc = "upsert"
  /\ Len(txPending) = Len(transformed_df)
  /\ \E r \in Range(txPending) :
       r.incident_number \in KeysOf(tblRows) \ KeysOf(rowsAtStart)

\* C7 (as claimed): no run leaves the stored watermark smaller, in string
\* order, than it was when the run started (an absent watermark is the
\* smallest; a file that held no timestamp at the start is not compared).
C7_WatermarkMonotone ==
  (pc = "exited" /\ (StoredWatermark(wmAtStart) = None
                        \/ IsIsoFormat(StoredWatermark(wmAtStart)))) =>
    StrLeq(StoredWatermark(wmAtStart), StoredWatermark(wmFile))

\* C8: with a stored watermark that is not a timestamp, the run issues no
\* request, fetch_fire_data returns None, the loader is not called, the
\* watermark and the table stay as they were and the exit status is 1.
InvalidWatermark == last_run_ts # None /\ ~IsIsoFormat(last_run_ts)

C9_RequestFailureAborts ==
  response = "error" =>
    /\ pc \in {"extracted", "exited"}
    /\ fetch_returned = "None"
    /\ raw_data_df = << >>
    /\ ~loaderCalled
    /\ wmFile = wmAtStart
    /\ tblRows = rowsAtStart
    /\ pc = "exited" => exitCode = 1

\* the failure came after a page that was fetched
C9_Witness ==
  /\ response = "error"
  /\ pc = "exited"
  /\ exitCode = 1
  /\ requests >= 2

\* C10: the requests of an extraction against the T matching records of a
\* source that does not change while it runs.
CeilDiv(a, b) == (a + b - 1) \div b
MatchingCount == Len(Matching(source, where))

\* C10 (as claimed): at most min(ceil(T/B), page cap) requests.
C10_CeilBound ==
  pc \in {"fetch", "extracted"} =>
    requests <= Min(CeilDiv(MatchingCount, BATCH_SIZE), max_iterations)

\* C10 (amended): at most min(floor(T/B) + 1, page cap) requests.
C10_FloorBound ==
  pc \in {"fetch", "extracted"} =>
    requests <= Min(MatchingCount \div BATCH_SIZE + 1, max_iterations)

\* the source ended on a full page, and one more request found it empty
C10_Witness ==
  /\ pc = "extracted"
  /\ fetch_returned = "DataFrame"
  /\ MatchingCount > 0
  /\ MatchingCount % BATCH_SIZE = 0
  /\ requests = MatchingCount \div BATCH_SIZE + 1

\* C11: an extraction that returned without reaching the page cap returned
\* exactly the records of the source that match the filter, in source order
\* (every record of the source is distinct, so this is: each once, none
\* dropped, none duplicated).
C11_BatchIsMatching ==
  (pc = "extracted" /\ fetch_returned = "DataFrame" /\ ~capWarning) =>
    raw_data_df = Matching(source, where)

\* records from two pages, selected by a filter that left some out
C11_Witness ==
  /\ pc = "extracted"
  /\ fetch_returned = "DataFrame"
  /\ ~capWarning
  /\ where # None
  /\ requests >= 2
  /\ Len(raw_data_df) > BATCH_SIZE
  /\ Len(raw_data_df) < Len(source)

\* C12: request i asks for offset (i-1)*B with limit B and the filter of
\* the run; every request before the last one got a full page below the
\* cap; the loop has ended, without an error, only on an empty page, a short
\* page or the cap; and with q full pages below the cap followed by a short
\* one it made q+1 requests, returned all the records and logged no cap
\* warning.
FullPage(i) ==
  Len(PageOf(source, where, BATCH_SIZE, (i - 1) * BATCH_SIZE)) = BATCH_SIZE

C13_CapIsNotFailure ==
  capWarning =>
    /\ fetch_returned = "DataFrame"
    /\ pc = "extracted" =>
         raw_data_df = SubSeq(Matching(source, where), 1,
                              Min(MatchingCount, BATCH_SIZE * max_iterations))
    /\ (pc = "exited" /\ exitCode # 0) =>
         gateRaised \/ (loaderCalled /\ ~committed)
    /\ (pc = "exited" /\ exitCode = 0) => committed

C13_Witness ==
  /\ capWarning
  /\ pc = "exited"
  /\ exitCode = 0
  /\ committed
  /\ requests = max_iterations
  /\ tblRows # rowsAtStart

\* C14 (as claimed): when the batch has columns the table lacks, the page
\* the loader sends next is not rejected on their account: a page whose
\* rows all have a key, each a different one, is accepted.
C14_DroppedColumnsNeverFail ==
  (/\ pc = "upsert"
   /\ Len(txPending) < Len(transformed_df)
   /\ dropped_cols(original_cols(raw_data_df), tblCols) # {}) =>
    LET n == Len(txPending)
        page == SubSeq(transformed_df, n + 1,
                       Min(n + page_size, Len(transformed_df)))
    IN (~HasDuplicates(page) /\ \A r \in Range(page) : r.incident_number # NULL)
         => ~StatementRejected(page, original_cols(raw_data_df), tblCols)

\* C15: when upsert_data has committed batch B into table T, for every row
\* r of B the table holds exactly one row with r's key; when the key was
\* absent from T it is the inserted row, else each projected non-key column
\* of it has r's value; and every row of T whose key is not in B is in the
\* table as it was.
BatchKeys == { r.incident_number : r \in Range(transformed_df) }

C15_UpsertEffect ==
  (pc = "advance" /\ committed) =>
    LET cols == cols_to_upsert(original_cols(raw_data_df), tblCols)
    IN /\ \A r \in Range(transformed_df) :
            \E x \in BagToSet(tblRows) :
              /\ x.incident_number = r.incident_number
              /\ CopiesIn(x, tblRows) = 1
              /\ \A y \in BagToSet(tblRows) :
                   y.incident_number = x.incident_number => y = x
              /\ IF r.incident_number \in KeysOf(rowsAtStart)
                 THEN \A c \in cols \ {unique_key} : x[c] = r[c]
                 ELSE x = InsertedRow(r, cols)
       /\ \A x \in BagToSet(rowsAtStart) :
            x.incident_number \notin BatchKeys =>
              CopiesIn(x, tblRows) = CopiesIn(x, rowsAtStart)

\* the batch brings a new key and a new version of a key of the table,
\* and the table has a key the batch does not bring
C15_Witness ==
  /\ pc = "advance"
  /\ committed
  /\ BatchKeys \ KeysOf(rowsAtStart) # {}
  /\ "response_timestamp" \in original_cols(raw_data_df)
  /\ \E r \in Range(transformed_df), x \in BagToSet(rowsAtStart) :
       /\ x.incident_number = r.incident_number
       /\ x.response_timestamp # r.response_timestamp
       /\ x.address # r.address
  /\ KeysOf(rowsAtStart) \ BatchKeys # {}

\* C16 (as claimed): after a run that fetched an empty batch and ended
\* with status 0, the staging table exists.
C16_EmptyBatchCreatesTable ==
  (/\ pc = "exited"
   /\ exitCode = 0
   /\ fetch_returned = "DataFrame"
   /\ ~loaderCalled) => tblExists

\* rows i of the fetched batch, and of the batch the gate returned, with key k
RawRowsOf(k) ==
  { i \in 1..Len(raw_data_df) : raw_data_df[i].incident_number = k }
GateRowsOf(k) ==
  { i \in 1..Len(transformed_df) : transformed_df[i].incident_number = k }

\* C17: when a key occurs in exactly two rows of the batch, with timestamps
\* t1 < t2, the batch the gate returns has exactly one row with the key,
\* and it is the row with t2.
C17_LatestVersionWins ==
  pc = "load" =>
    \A i, j \in 1..Len(raw_data_df) :
      LET k == raw_data_df[i].incident_number
      IN (/\ k # NULL
          /\ RawRowsOf(k) = {i, j}
          /\ 0 < raw_data_df[i].response_timestamp
          /\ raw_data_df[i].response_timestamp
               < raw_data_df[j].response_timestamp) =>
           /\ Cardinality(GateRowsOf(k)) = 1
           /\ \A n \in GateRowsOf(k) : transformed_df[n] = raw_data_df[j]

\* the later version comes first in the batch, next to a row of another key
C17_Witness ==
  /\ pc = "load"
  /\ Len(transformed_df) >= 2
  /\ \E i, j \in 1..Len(raw_data_df) :
       /\ j < i
       /\ raw_data_df[i].incident_number # NULL
       /\ RawRowsOf(raw_data_df[i].incident_number) = {i, j}
       /\ 0 < raw_data_df[i].response_timestamp
       /\ raw_data_df[i].response_timestamp < raw_data_df[j].response_timestamp

\* C18: the batch handed to the loader has exactly one row for each
\* incident_number of the fetched batch and no row with another one, with
\* or without a missing-key issue; when the batch has no incremental column
\* the row of a key is the first row of the fetched batch with that key.
RawKeys == { raw_data_df[i].incident_number : i \in 1..Len(raw_data_df) } \ {NULL}

Lowest(S) == CHOOSE i \in S : \A j \in S : i <= j

C18_OneRowPerBatchKey ==
  pc = "load" =>
    /\ \A k \in RawKeys : Cardinality(GateRowsOf(k)) = 1
    /\ \A n \in 1..Len(transformed_df) :
         transformed_df[n].incident_number \in RawKeys \cup {NULL}
    /\ INCREMENTAL_COLUMN \notin Columns(raw_data_df) =>
         \A k \in RawKeys : \A n \in GateRowsOf(k) :
           transformed_df[n] = raw_data_df[Lowest(RawRowsOf(k))]

\* a missing-key issue and a duplicated key, without the incremental column
C18_Witness ==
  /\ pc = "load"
  /\ issues_found
  /\ INCREMENTAL_COLUMN \notin Columns(raw_data_df)
  /\ \E k \in RawKeys : Cardinality(RawRowsOf(k)) >= 2

\* C19 (as claimed): every row of the fetched batch that has no
\* incident_number is a row of the batch the gate returns.
C19_MissingKeyRowsKept ==
  pc = "load" =>
    \A i \in RawRowsOf(NULL) : raw_data_df[i] \in Range(transformed_df)

\* C20: a non-empty batch without the incident_number column makes the
\* call of transform_data end the run with status 1, the loader not called
\* and the watermark file untouched; and a run whose gate raised stays so.
C20_MissingKeyColumnAborts ==
  [][/\ (pc = "transform" /\ raw_data_df # << >>
                          /\ unique_key \notin Columns(raw_data_df)) =>
          (gateRaised' /\ wmFile' = wmFile)
     /\ gateRaised' =>
          /\ pc' = "exited"
          /\ exitCode' = 1
          /\ ~loaderCalled'
          /\ wmFile' = wmAtStart'
          /\ tblRows' = rowsAtStart']_vars

\* the watermark would have advanced had the run gone on
C20_Witness ==
  /\ gateRaised
  /\ pc = "exited"
  /\ exitCode = 1
  /\ StoredWatermark(wmFile) # None
  /\ ShouldAdvance(last_run_ts, latest_processed_timestamp)

\* C21: once branch_on_dq_results has run, its choice is stop_pipeline when
\* some status is tagged FAIL (its first word is FAIL) and
\* proceed_with_pipeline otherwise; the choice never changes afterwards,
\* and the only downstream task that runs is the chosen one.
TaggedFail(status) == status # << >> /\ Head(status) = "FAIL"

C21_VerdictRouting ==
  [][/\ branchChoice' # "none" =>
          /\ branchChoice' \in {"stop_pipeline", "proceed_with_pipeline"}
          /\ branchChoice' = "stop_pipeline" <=>
               \E i \in 1..Len(dq_statuses') : TaggedFail(dq_statuses'[i])
          /\ ranTasks' \subseteq {branchChoice'}
     /\ branchChoice # "none" =>
          branchChoice' = branchChoice /\ dq_statuses' = dq_statuses]_vars

\* one failed check among passed ones, and the halt task has run
C21_Witness ==
  /\ dagPc = "done"
  /\ ranTasks = {"stop_pipeline"}
  /\ \E i \in 1..Len(dq_statuses) : TaggedFail(dq_statuses[i])
  /\ \E i \in 1..Len(dq_statuses) : ~ContainsFail(dq_statuses[i])

\* C22: the value a run hands to save_last_run_timestamp is strictly
\* greater, as a string, than the watermark the run read at start; a run
\* that read a watermark and ended with a different timestamp in the file
\* left a strictly greater one.
C22_WritesOnlyNewer ==
  /\ (pc = "advance" /\ last_run_ts # None
        /\ ShouldAdvance(last_run_ts, latest_processed_timestamp)) =>
       StrLess(last_run_ts, latest_processed_timestamp)
  /\ (pc = "exited" /\ last_run_ts # None /\ wmFile # wmAtStart
        /\ StoredWatermark(wmFile) # None) =>
       StrLess(last_run_ts, StoredWatermark(wmFile))

\* an incremental run has replaced the watermark it read
C22_Witness ==
  /\ pc = "exited"
  /\ committed
  /\ last_run_ts # None
  /\ wmFile # wmAtStart
  /\ wmFile = File(latest_processed_timestamp)

\* C23: the step of run_etl after the load stores nothing but the
\* formatted maximum of response_timestamp over all rows of the fetched
\* batch raw_data_df, whether or not the gate kept the row, and leaves the
\* file alone when that value equals the watermark read at start.
FetchedTicks == { raw_data_df[i].response_timestamp : i \in 1..Len(raw_data_df) } \ {0}

FetchedMaximum == CHOOSE t \in FetchedTicks : \A u \in FetchedTicks : u <= t

C23_AdvanceToFetchedMaximum ==
  [][pc = "advance" =>
       /\ (wmFile' # wmFile /\ wmFile'.text # << >>) =>
            /\ FetchedTicks # {}
            /\ wmFile' = File(FormatTimestamp(FetchedMaximum))
       /\ (FetchedTicks # {}
            /\ FormatTimestamp(FetchedMaximum) = last_run_ts) =>
            wmFile' = wmFile]_vars

\* the watermark is the time of a fetched row the gate dropped: no row of
\* the table carries a time that late
C23_Witness ==
  /\ pc = "exited"
  /\ committed
  /\ wmFile # wmAtStart
  /\ wmFile = File(FormatTimestamp(MaxTick))
  /\ \E i \in 1..Len(source) : source[i].response_timestamp = MaxTick
  /\ \A x \in BagToSet(tblRows) : x.response_timestamp # MaxTick
  /\ "response_timestamp" \in tblCols

\* C24: when fetch_fire_data returns an empty DataFrame (the first page of
\* the API was empty), the next step of the run ends it with status 0;
\* the gate and the loader have not run and do not run, the watermark
\* file and the table are as they were.
C24_EmptyFetchEndsRun ==
  [][(pc = "extracted" /\ fetch_returned = "DataFrame"
       /\ raw_data_df = << >>) =>
       /\ requests = 1
       /\ pc' = "exited"
       /\ exitCode' = 0
       /\ ~loaderCalled'
       /\ ~gateRaised' /\ ~issues_found'
       /\ transformed_df' = << >>
       /\ wmFile' = wmFile /\ wmFile = wmAtStart
       /\ tblRows' = tblRows /\ tblRows = rowsAtStart]_vars

\* a run with a watermark found nothing newer in a source that has records
C24_Witness ==
  /\ pc = "exited"
  /\ exitCode = 0
  /\ fetch_returned = "DataFrame"
  /\ requests = 1
  /\ response = "ok"
  /\ ~loaderCalled
  /\ last_run_ts # None
  /\ Len(source) >= 1
  /\ latest_processed_timestamp = None

\* C25: a run ends with status 0 or 1; 0 exactly when its load committed
\* or the fetch returned an empty DataFrame, and 1 when the engine could
\* not be acquired, the fetch returned None, the gate raised for the
\* missing key column or the load failed.
C25_ExitStatus ==
  pc = "exited" =>
    /\ exitCode \in {0, 1}
    /\ exitCode = 0 <=>
         \/ committed
         \/ (fetch_returned = "DataFrame" /\ response = "ok"
              /\ latest_processed_timestamp = None /\ ~loaderCalled
              /\ ~gateRaised)
    /\ (engine = "None" \/ fetch_returned = "None" \/ gateRaised
         \/ (loaderCalled /\ ~committed)) => exitCode = 1

\* the fetch failed on its second page: the exit sys.exit(1) requests
C25_Witness ==
  /\ pc = "exited"
  /\ exitCode = 1
  /\ fetch_returned = "None"
  /\ response = "error"
  /\ requests = 2
  /\ engine = "disposed"

\* C26: while a run is in progress its engine is open and has not been
\* disposed; once the run is over, an engine that was acquired has been
\* disposed exactly once, whatever the path out of the run, and no
\* dispose was called when none was acquired.
C26_EngineDisposedOnce ==
  /\ pc \notin {"idle", "exited"} => engine = "open" /\ disposeCalls = 0
  /\ pc = "exited" =>
       /\ engine \in {"disposed", "None"}
       /\ disposeCalls = IF engine = "disposed" THEN 1 ELSE 0
       /\ exitCode \in {0, 1}

\* the gate raised in transform_data, and the engine was disposed
C26_Witness ==
  /\ pc = "exited"
  /\ gateRaised
  /\ exitCode = 1
  /\ engine = "disposed"
  /\ disposeCalls = 1

\* C27: a run that found the state file missing, empty or holding only
\* white space got None from get_last_run_timestamp and went on to the
\* fetch; none of its page requests carries a $where filter.
AbsentWatermark(f) == ~f.exists \/ \A i \in 1..Len(f.text) : f.text[i] = " "

C27_AbsentWatermarkFullLoad ==
  (AbsentWatermark(wmAtStart) /\ pc \notin {"idle"} /\ engine # "None") =>
    /\ last_run_ts = None
    /\ pc # "extract" => fetch_returned # "None" \/ response = "error"
    /\ \A i \in 1..Len(requestLog) : requestLog[i].where = None
    /\ pc \notin {"extract", "fetch"} => Len(requestLog) >= 1

\* a file of white space, and the whole source was fetched and loaded
C27_Witness ==
  /\ wmAtStart = File(<< " " >>)
  /\ pc = "exited"
  /\ committed
  /\ requests >= 1
  /\ Len(source) = MaxSource
  /\ \A i \in 1..Len(source) : source[i].response_timestamp = 0

\* C28: a run whose load committed and whose watermark write failed ends
\* with status 0, its rows committed, and the watermark the file held
\* when the run started is still the one it holds.
C28_FailedWriteKeepsWatermark ==
  (pc = "exited" /\ writeLost = "lost") =>
    /\ committed
    /\ exitCode = 0
    /\ StoredWatermark(wmFile) = StoredWatermark(wmAtStart)

\* C29: in a run that follows a run whose load committed and whose
\* watermark write was lost, with the source as it was, the staging table
\* holds at every moment, and so at the end, the rows it held when the
\* run started.
\* The sort of the gate is not stable, so the row it keeps among records
\* of one key with one timestamp is known only for a source without such
\* records; the property is stated for those.
SortDetermined(src) ==
  \A i, j \in 1..Len(src) :
    (i # j /\ src[i].incident_number = src[j].incident_number) =>
      src[i].response_timestamp # src[j].response_timestamp

C29_RerunLeavesTable ==
  (writeLost = "previous" /\ SortDetermined(source)) => tblRows = rowsAtStart

\* C30: every page request of a run with an application token configured
\* carries the header X-App-Token with the token, and the requests of a
\* run without one carry no such header.
C30_TokenHeaderSent ==
  \A i \in 1..Len(requestLog) :
    requestLog[i].headers = TokenHeaders(API_APP_TOKEN)

\* C31: after clean_column_names the column names of the DataFrame are
\* pairwise distinct, whatever the original names were.
C31_CleanNamesDistinct ==
  normPc \in {"convert_data_types", "done"} =>
    \A i, j \in 1..Len(df_columns) : i # j => df_columns[i] # df_columns[j]

\* C32: after normalization every column of the DataFrame is a column of
\* EXPECTED_DTYPES.
C32_ColumnsWithinSchema ==
  normPc = "done" =>
    \A i \in 1..Len(df_columns) : df_columns[i] \in DOMAIN EXPECTED_DTYPES

\* C33: normalization returns for every DataFrame, with as many rows and
\* columns as it was given, and a column whose coercion raised has the
\* form it had before that coercion.
C33_CoercionFailureAbsorbed ==
  normPc = "done" =>
    /\ Len(df_columns) = Len(original_columns)
    /\ df_rows = rows_in
    /\ \A i \in 1..Len(col_state) :
         col_state[i].failed => col_state[i].form = col_state[i].before

\* C34: whatever the API answers, fetch_fire_data sends at most
\* max_iterations page requests and returns.
C34_FetchTerminates ==
  /\ [](requests <= max_iterations)
  /\ [](pc = "fetch" => requests < max_iterations)
  /\ <>(pc = "extracted")

\* every request was answered with more records than it asked for
C34_Witness ==
  /\ pc = "extracted"
  /\ requests = max_iterations
  /\ capWarning
  /\ Len(raw_data_df) = max_iterations * (BATCH_SIZE + 1)

\* C35: after a run that ended with status 0, every record of the source
\* whose timestamp is later than the watermark the run read and not later
\* than the watermark the file holds now is in the staging table: the
\* table has a row of its key that is at least as recent.
C35_NoRecordSkipped ==
  (pc = "exited" /\ exitCode = 0 /\ StoredWatermark(wmFile) # None
    /\ IsIsoFormat(StoredWatermark(wmFile))) =>
    \A i \in 1..Len(source) :
      (/\ source[i].response_timestamp # 0
       /\ source[i].incident_number # NULL
       /\ last_run_ts # None =>
            source[i].response_timestamp > ParseTicks(last_run_ts)
       /\ source[i].response_timestamp <= ParseTicks(StoredWatermark(wmFile))) =>
        \E x \in BagToSet(tblRows) :
          /\ x.incident_number = source[i].incident_number
          /\ x.response_timestamp >= source[i].response_timestamp

\* C36: a run that ended with a non-zero exit status has left the text of
\* the watermark file and the committed rows of the staging table as they
\* were when the run started.
C36_FailedRunChangesNothing ==
  (pc = "exited" /\ exitCode # 0) =>
    /\ wmFile = wmAtStart
    /\ tblRows = rowsAtStart

\* a run over a loaded table and a stored watermark, stopped by the gate
C36_Witness ==
  /\ pc = "exited"
  /\ exitCode = 1
  /\ wmAtStart.exists
  /\ rowsAtStart # EmptyBag
  /\ gateRaised

\* C37: when the fetched batch has the incremental column, the row the
\* gate keeps for a key has the greatest response_timestamp of the rows of
\* that key, a missing response_timestamp counting as lower than any
\* present one.
C37_MissingTimestampNeverWins ==
  (pc = "load" /\ INCREMENTAL_COLUMN \in Columns(raw_data_df)) =>
    \A k \in RawKeys : \A n \in GateRowsOf(k) : \A i \in RawRowsOf(k) :
      raw_data_df[i].response_timestamp <= transformed_df[n].response_timestamp

\* C38: for a non-empty fetched batch transform_data either raises or
\* returns a non-empty batch; the step of the run that transforms a
\* non-empty batch therefore goes on to the load, or ends the run with
\* status 1 and the watermark file untouched, and never takes the branch
\* of the empty transformed batch.
C38_TransformKeepsRows ==
  /\ [](pc = "transform" => raw_data_df # << >>)
  /\ []((pc = "transform" /\ ~TransformRaises(raw_data_df)) =>
          \A df \in transform_data(raw_data_df) : df # << >>)
  /\ [][(pc = "transform" /\ pc' # "transform") =>
          \/ pc' = "load" /\ transformed_df' # << >> /\ wmFile' = wmFile
          \/ pc' = "exited" /\ gateRaised' /\ exitCode' = 1
               /\ wmFile' = wmFile]_vars

\* duplicate resolution removed rows of the batch, and rows are left
C38_Witness ==
  /\ pc = "load"
  /\ Len(transformed_df) < Len(raw_data_df)
  /\ wmAtStart.exists

\* C39: a watermark text that a run writes is the timestamp it formatted,
\* passes the extractor's validation and is what the file yields when
\* read; a run that reads the file gets that text unchanged; so, when
\* every watermark in the file was written by a run, no run reads one
\* that the extractor rejects.
C39_WrittenWatermarkReadBack ==
  /\ [][(wmFile' # wmFile /\ wmFile'.text # << >>) =>
          /\ wmFile'.text = latest_processed_timestamp
          /\ IsIsoFormat(wmFile'.text)
          /\ StoredWatermark(wmFile') = wmFile'.text]_vars
  /\ [][(pc # "extract" /\ pc' = "extract" /\ last_run_ts' # None) =>
          last_run_ts' = wmFile.text]_vars
  /\ [](~InvalidWatermark)

\* a run fetches with the filter of the watermark an earlier run wrote
C39_Witness ==
  /\ pc = "fetch"
  /\ requests >= 1
  /\ where # None
  /\ wmAtStart = File(where)
  /\ rowsAtStart # EmptyBag

\* C40: a run whose non-empty fetched batch yields no latest timestamp (no
\* response_timestamp column, or no value in it) goes on to the transform;
\* from there to its end the watermark file is as it was at the start of
\* the run; after its commit the rows of the batch are in the table, and
\* it ends with status 0.
C40_NoTimestampNoWrite ==
  /\ [][(/\ pc = "extracted"
          /\ fetch_returned = "DataFrame"
          /\ raw_data_df # << >>
          /\ LatestTimestamp(raw_data_df) = None) =>
          /\ pc' = "transform"
          /\ latest_processed_timestamp' = None
          /\ wmFile' = wmFile]_vars
  /\ []((/\ pc \in {"transform", "load", "upsert", "advance", "exited"}
          /\ latest_processed_timestamp = None) => wmFile = wmAtStart)
  /\ []((pc = "advance" /\ latest_processed_timestamp = None) =>
          \A n \in 1..Len(transformed_df) :
            transformed_df[n].incident_number # NULL =>
              transformed_df[n].incident_number \in KeysOf(tblRows))
  /\ []((pc = "exited" /\ committed
          /\ latest_processed_timestamp = None) => exitCode = 0)

\* a full load of records without response_timestamp, over a state file
\* that exists, has committed and ended
C40_Witness ==
  /\ pc = "exited"
  /\ exitCode = 0
  /\ committed
  /\ latest_processed_timestamp = None
  /\ tblRows # rowsAtStart
  /\ wmAtStart.exists

====
